---- MODULE Spec2Model ----
(***************************************************************************)
(* A model of the ACPI table locator (src/src/sdt.rs), of the MADT         *)
(* sub-record walkers (src/src/sdt/madt.rs and the older src/src/madt.rs)  *)
(* and of the RHCT node lookups (src/src/sdt/rhct.rs).                     *)
(*                                                                         *)
(* Firmware memory is fixed at Init.  The Bridge is the external mapping   *)
(* collaborator: it is modelled by its bookkeeping (which local address    *)
(* is backed by which physical table, for how many bytes, and how many     *)
(* map/remap results are still outstanding on it) and by two address       *)
(* policies the trait allows.  A read through a pointer whose mapping is   *)
(* no longer outstanding has no defined value: every such read is a        *)
(* nondeterministic choice.                                                *)
(***************************************************************************)
EXTENDS Integers, Sequences, FiniteSets, Bags, TLC

VARIABLES
    rsdp,              \* the Rsdp the caller passes to RootTable::new
    fw,                \* firmware: the root table the Rsdp names
    bridge,            \* the address policy of the Bridge implementation
    debug_assertions,  \* cfg(debug_assertions) of the build
    maps,              \* Bridge bookkeeping, per local address
    leaked,            \* per local address: handles given up by into_inner
    root,              \* the RootTable value
    iter,              \* the all_tables() iterator the caller holds
    handles,           \* the Mapped handles the caller holds
    panicked,          \* an operation panicked
    last,              \* what the last operation was asked and returned
    calls,             \* the Bridge calls of the last operation, in order
    reads,             \* the firmware reads of the last operation
    ics,               \* Madt::entries, iter_madt: the bytes after the fixed fields
    offset,            \* Madt::entries, iter_madt: the closure's offset or cursor
    emitted,           \* Madt::entries, iter_madt: the entries returned so far
    status,            \* Madt::entries, iter_madt: "idle", "running", "done", "panic"
    nodes,             \* Rhct: the bytes of self.nodes
    hart,              \* HartInfo::entries: the iterator's state and index
    rres,              \* Rhct: what the last node operation was asked and returned
    nodes_len,         \* Rhct: the nodes_len field
    nodes_offset,      \* Rhct: the nodes_offset field
    walk               \* Rhct::nodes: the iterator's state, index and offset

locVars == <<rsdp, fw, bridge, debug_assertions, maps, leaked, root, iter,
             handles, panicked, last, calls, reads>>
madtVars == <<ics, offset, emitted, status>>
walkVars == <<nodes_len, nodes_offset, walk>>
rhctVars == <<nodes, hart, rres, nodes_len, nodes_offset, walk>>
vars == <<rsdp, fw, bridge, debug_assertions, maps, leaked, root, iter,
          handles, panicked, last, calls, reads, ics, offset, emitted, status,
          nodes, hart, rres, nodes_len, nodes_offset, walk>>

(***************************************************************************)
(* Bounds of the model.                                                    *)
(***************************************************************************)
MaxHandles == 2     \* handles the caller holds at once
MaxLeaks == 1       \* into_inner calls
MaxWalk == 2        \* root-array entries one walk examines

(***************************************************************************)
(* Program constants.                                                      *)
(***************************************************************************)
HeaderSize == 36    \* size_of::<Header>()
U32Size == 4        \* size_of::<u32_le>()
U64Size == 8        \* size_of::<u64_le>()
UsizeBits == 16     \* width of usize on the modelled target
SubHeaderSize == 2  \* size_of::<madt::Header>()
NodeHeaderSize == 6 \* size_of::<rhct::Header>()
Usize == 2 ^ UsizeBits

Min(a, b) == IF a < b THEN a ELSE b
Max(a, b) == IF a > b THEN a ELSE b

(***************************************************************************)
(* Table types: impl Sdt.  stride 0 is a fixed-layout table, whose         *)
(* from_header_ptr is a cast.                                              *)
(***************************************************************************)
SdtTypes == {"RootSdt32", "RootSdt64", "Madt", "Fadt", "Mcfg", "Rhct"}

SIGNATURE(T) ==
    CASE T = "RootSdt32" -> "RSDT"
      [] T = "RootSdt64" -> "XSDT"
      [] T = "Madt" -> "APIC"
      [] T = "Fadt" -> "FACP"
      [] T = "Mcfg" -> "MCFG"
      [] T = "Rhct" -> "RHCT"

\* size_of::<T>() of the trailing element; 0 for a table with no trailing array
Stride(T) ==
    CASE T = "RootSdt32" -> U32Size
      [] T = "RootSdt64" -> U64Size
      [] T = "Madt" -> 1
      [] T = "Fadt" -> 0
      [] T = "Mcfg" -> 16
      [] T = "Rhct" -> 1

\* the size of the sized prefix of a dynamically sized table type
size_of_unsized(T) ==
    CASE T = "RootSdt32" -> HeaderSize
      [] T = "RootSdt64" -> HeaderSize
      [] T = "Madt" -> HeaderSize + 8
      [] T = "Mcfg" -> HeaderSize + 8
      [] T = "Rhct" -> HeaderSize + 20
      [] T = "Unknown" -> SubHeaderSize
      [] T = "RhctUnknown" -> NodeHeaderSize
      [] T = "IsaString" -> NodeHeaderSize + 2
      [] T = "HartInfo" -> NodeHeaderSize + 6
      [] OTHER -> HeaderSize

(***************************************************************************)
(* Firmware memory.                                                        *)
(***************************************************************************)
RsdtPhys == 8
XsdtPhys == 9
TablePhys == {1, 2}
Addrs == 1 .. 9

\* the tables the root array can name: signature and header.length.  Table 1
\* is a MADT with 20 bytes of interrupt controller structures; table 2 is an
\* RHCT whose header.length is below the fixed part of an Rhct.
TableSig(phys) ==
    CASE phys = 1 -> "APIC"
      [] phys = 2 -> "RHCT"
      [] OTHER -> "????"

TableLen(phys) ==
    CASE phys = 1 -> HeaderSize + 8 + 20
      [] phys = 2 -> HeaderSize + 4
      [] OTHER -> 0

\* byte i of v stored little-endian
LEByte(v, i) == IF i < 3 THEN (v \div (256 ^ i)) % 256 ELSE 0

\* byte j of the pointer array that follows the root table's header
RootArrayByte(phys, j) ==
    LET w == IF phys = RsdtPhys THEN U32Size ELSE U64Size
        e == (j \div w) + 1
    IN  IF e <= Len(fw.ents) THEN LEByte(fw.ents[e], j % w) ELSE 0

\* u32_le::get / u64_le::get of the w bytes at byte offset j of the array
RECURSIVE DecodeLE(_, _, _)
DecodeLE(phys, j, w) ==
    IF w = 0 THEN 0
    ELSE RootArrayByte(phys, j) + 256 * DecodeLE(phys, j + 1, w - 1)

(***************************************************************************)
(* The Bridge.  b is the record [maps, calls, reads, ret] threaded through *)
(* one operation.                                                          *)
(***************************************************************************)
Bridges == {"direct", "fresh"}

NoMap == [phys |-> 0, size |-> 0, refs |-> 0, stale |-> FALSE]
Gone == [phys |-> 0, size |-> 0, refs |-> 0, stale |-> TRUE]

LowestFree(m) == CHOOSE a \in Addrs : m[a].refs = 0 /\ \A c \in Addrs : c < a => m[c].refs # 0

\* the address map(phys, size) returns
MapAddr(m, phys) == IF bridge = "direct" THEN phys ELSE LowestFree(m)

\* the address remap(virt, new_size) returns
RemapAddr(m, virt) == IF bridge = "fresh" THEN LowestFree(m) ELSE virt

BMap(b, phys, size) ==
    LET a == MapAddr(b.maps, phys)
        old == b.maps[a]
        new == [phys |-> phys,
                size |-> IF old.refs > 0 THEN Max(old.size, size) ELSE size,
                refs |-> old.refs + 1,
                stale |-> FALSE]
    IN  [b EXCEPT !.maps[a] = new,
                  !.calls = Append(@, [op |-> "map", arg |-> phys, size |-> size, ret |-> a]),
                  !.ret = a]

BRemap(b, virt, size) ==
    LET a == RemapAddr(b.maps, virt)
        old == b.maps[a]
        new == [phys |-> b.maps[virt].phys,
                size |-> size,
                refs |-> old.refs + 1,
                stale |-> FALSE]
    IN  [b EXCEPT !.maps[a] = new,
                  !.calls = Append(@, [op |-> "remap", arg |-> virt, size |-> size, ret |-> a]),
                  !.ret = a]

BUnmap(b, virt) ==
    LET old == b.maps[virt]
        new == IF old.refs = 1 THEN Gone ELSE [old EXCEPT !.refs = @ - 1, !.stale = TRUE]
    IN  [b EXCEPT !.maps[virt] = new,
                  !.calls = Append(@, [op |-> "unmap", arg |-> virt, size |-> 0, ret |-> 0])]

\* the header bytes of the table at phys that the model tells apart: its
\* signature and its length
HeaderOf(phys) == <<TableSig(phys), TableLen(phys)>>

\* the bytes a pointer derived from virt may read of the table at phys
Cover(m, virt, phys) ==
    IF m[virt].refs > 0 /\ m[virt].phys = phys THEN m[virt].size ELSE 0

\* a read of len bytes at offset off of the table at phys through virt
BRead(b, what, virt, phys, off, len) ==
    [b EXCEPT !.reads = @ \cup {[what |-> what, phys |-> phys, off |-> off, len |-> len,
                                  size |-> Cover(b.maps, virt, phys)]}]

B0 == [maps |-> maps, calls |-> <<>>, reads |-> {}, ret |-> 0]

(***************************************************************************)
(* Sdt::from_header_ptr.  sig and length are the header fields read        *)
(* through the pointer.  The result is the pointer metadata, or a panic.   *)
(***************************************************************************)
\* header_dynamic_size
header_dynamic_size(T, sig, length) ==
    IF debug_assertions /\ sig # SIGNATURE(T) THEN [panic |-> TRUE, size |-> 0]
    ELSE IF debug_assertions /\ length < size_of_unsized(T) THEN [panic |-> TRUE, size |-> 0]
    ELSE [panic |-> FALSE, size |-> (length - size_of_unsized(T)) % Usize]

\* from_header_ptr_slice_of
from_header_ptr_slice_of(T, sig, length) ==
    LET d == header_dynamic_size(T, sig, length)
    IN  [panic |-> d.panic, len |-> IF d.panic THEN 0 ELSE d.size \div Stride(T)]

from_header_ptr(T, sig, length) ==
    IF Stride(T) = 0 THEN [panic |-> FALSE, len |-> 0]
    ELSE from_header_ptr_slice_of(T, sig, length)

(***************************************************************************)
(* Mapped handles.  phys is the table the handle was made for (what its    *)
(* pointer is meant to address); len is the pointer metadata.              *)
(***************************************************************************)
\* the caller's handles are a bag: two handles may be equal
Held == BagToSet(handles)
Add(hs, h) == hs (+) SetToBag({h})
Remove(hs, h) == hs (-) SetToBag({h})

NoHandle == [addr |-> 0, ty |-> "none", phys |-> 0, len |-> 0]
Handle(a, T, p, n) == [addr |-> a, ty |-> T, phys |-> p, len |-> n]

\* a mapping of the whole table, sized before any header has been read
map_header_full(b, phys) == BMap(b, phys, TableLen(phys))

\* map_header: Bridge map of the header alone
map_header(b, phys) == BMap(b, phys, HeaderSize)

\* a widening that remaps but goes on using the address it had
clone_header_keep_addr(b, virt, phys) ==
    LET b1 == BRead(b, "table", virt, phys, 4, 4)
    IN  [BRemap(b1, virt, TableLen(phys)) EXCEPT !.ret = virt]

\* Mapped<Header>::clone_header on the handle at virt, then nothing else:
\* reads self.length through the handle and remaps to it; ret is the new address
clone_header(b, virt, phys) ==
    LET b1 == BRead(b, "table", virt, phys, 4, 4)
    IN  BRemap(b1, virt, TableLen(phys))

\* Drop for Mapped
drop(b, virt) == BUnmap(b, virt)

\* Mapped<Header>::map_full::<T> on handle h: [b, panic, h]
map_full(b, h, T) ==
    LET b1 == BRead(b, "table", h.addr, h.phys, 0, 4)
    IN  IF TableSig(h.phys) # SIGNATURE(T)
        THEN \* assert! fails; self is dropped by the unwinding
             [b |-> drop(b1, h.addr), panic |-> TRUE, h |-> NoHandle]
        ELSE LET b2 == BRead(b1, "table", h.addr, h.phys, 4, 4)
                 b3 == BRemap(b2, h.addr, TableLen(h.phys))
                 new == b3.ret
                 b4 == IF Stride(T) = 0 THEN b3
                       ELSE BRead(b3, "table", new, h.phys, 4, 4)
                 p == from_header_ptr(T, TableSig(h.phys), TableLen(h.phys))
             IN  [b |-> drop(b4, h.addr),
                  panic |-> p.panic,
                  h |-> IF p.panic THEN NoHandle ELSE Handle(new, T, h.phys, p.len)]

(***************************************************************************)
(* RootTable::new                                                          *)
(***************************************************************************)
NoRoot == [state |-> "none", acpi_revision |-> 0, kind |-> "none", ptr |-> 0,
           len |-> 0, phys |-> 0]

\* the selection with the boundary revision taken for a legacy one
SelectRootLegacyAtTwo(revision) ==
    IF revision <= 2
    THEN [kind |-> "Rsdt", phys |-> rsdp.rsdt_addr, T |-> "RootSdt32"]
    ELSE [kind |-> "Xsdt", phys |-> rsdp.xsdt_addr, T |-> "RootSdt64"]

\* the root variant chosen from the revision: [kind, phys, T]
SelectRoot(revision) ==
    IF revision < 2
    THEN [kind |-> "Rsdt", phys |-> rsdp.rsdt_addr, T |-> "RootSdt32"]
    ELSE [kind |-> "Xsdt", phys |-> rsdp.xsdt_addr, T |-> "RootSdt64"]

\* size_of of one element of the root array
Width(kind) == IF kind = "Rsdt" THEN U32Size ELSE U64Size

\* map_table::<T>: [b, panic, len]; on a panic no Mapped exists yet
map_table(b, T, phys) ==
    LET b1 == BMap(b, phys, HeaderSize)
        b2 == IF debug_assertions THEN BRead(b1, "root", b1.ret, phys, 0, 4) ELSE b1
        b3 == BRead(b2, "root", b1.ret, phys, 4, 4)
        p == from_header_ptr(T, fw.rootSig, fw.rootLen)
    IN  [b |-> b3, panic |-> p.panic, len |-> p.len]

NoLast == [op |-> "none", sig |-> "", index |-> 0, found |-> FALSE, panic |-> FALSE,
           picks |-> <<>>, res |-> NoHandle]

New ==
    /\ root.state = "none"
    /\ ~panicked
    /\ \E acpi_revision \in {rsdp.revision} :
       \E sel \in {SelectRoot(acpi_revision)} :
       \E m \in {map_table(B0, sel.T, sel.phys)} :
       \* the Mapped local of the branch is dropped where the branch ends
       \E b \in {IF m.panic THEN m.b ELSE drop(m.b, m.b.ret)} :
           /\ root' = IF m.panic THEN [NoRoot EXCEPT !.state = "failed"]
                      ELSE [state |-> "live", acpi_revision |-> acpi_revision,
                            kind |-> sel.kind, ptr |-> m.b.ret, len |-> m.len,
                            phys |-> sel.phys]
           /\ panicked' = m.panic
           /\ maps' = b.maps
           /\ calls' = b.calls
           /\ reads' = b.reads
           /\ last' = [NoLast EXCEPT !.op = "new", !.panic = m.panic]
    /\ UNCHANGED <<rsdp, fw, bridge, debug_assertions, leaked, iter, handles>>
    /\ UNCHANGED madtVars
    /\ UNCHANGED rhctVars

\* a RootTable has no Drop: dropping it calls nothing
DropRoot ==
    /\ root.state = "live"
    /\ ~iter.active
    /\ root' = [root EXCEPT !.state = "dropped"]
    /\ calls' = <<>>
    /\ reads' = {}
    /\ last' = [NoLast EXCEPT !.op = "drop_root"]
    /\ UNCHANGED <<rsdp, fw, bridge, debug_assertions, maps, leaked, iter, handles, panicked>>
    /\ UNCHANGED madtVars
    /\ UNCHANGED rhctVars

(***************************************************************************)
(* RootPtrs::iter and RootTable::all_tables                                *)
(***************************************************************************)
\* what the pointer array holds at index, were it read from mapped memory
RootEntry(index) ==
    DecodeLE(root.phys, index * Width(root.kind), Width(root.kind)) % Usize

\* the read of element index is inside a live mapping of the root table
RootCovered(m, index) ==
    Cover(m, root.ptr, root.phys) >= HeaderSize + (index + 1) * Width(root.kind)

\* one element of all_tables() that leaves the header-only mapping behind
NextTableKeepHeader(b, index, pick) ==
    LET w == Width(root.kind)
        b1 == BRead(b, "root", root.ptr, root.phys, HeaderSize + index * w, w)
        phys == IF RootCovered(b.maps, index) THEN RootEntry(index) ELSE pick
        b2 == map_header(b1, phys)
        b3 == clone_header(b2, b2.ret, phys)
    IN  [b |-> b3, h |-> Handle(b3.ret, "Header", phys, 0), phys |-> phys]

\* one element of all_tables(): read the entry, map_header, clone_header, and
\* drop the header-only handle.  pick is the value an uncovered read gives.
\* [b, h]
NextTable(b, index, pick) ==
    LET w == Width(root.kind)
        b1 == BRead(b, "root", root.ptr, root.phys, HeaderSize + index * w, w)
        phys == IF RootCovered(b.maps, index) THEN RootEntry(index) ELSE pick
        b2 == map_header(b1, phys)
        hdr == b2.ret
        b3 == clone_header(b2, hdr, phys)
        new == b3.ret
    IN  [b |-> drop(b3, hdr), h |-> Handle(new, "Header", phys, 0), phys |-> phys]

AllTables ==
    /\ root.state = "live"
    /\ ~panicked
    /\ ~iter.active
    /\ iter' = [active |-> TRUE, index |-> 0]
    /\ calls' = <<>>
    /\ reads' = {}
    /\ last' = [NoLast EXCEPT !.op = "all_tables"]
    /\ UNCHANGED <<rsdp, fw, bridge, debug_assertions, maps, leaked, root, handles, panicked>>
    /\ UNCHANGED madtVars
    /\ UNCHANGED rhctVars

\* Iterator::next on all_tables()
AllTablesNext ==
    /\ iter.active
    /\ ~panicked
    /\ IF iter.index < root.len
       THEN /\ iter.index < MaxWalk
            /\ BagCardinality(handles) < MaxHandles
            /\ \E pick \in TablePhys :
                 \E r \in {NextTable(B0, iter.index, pick)} :
                     /\ maps' = r.b.maps
                     /\ calls' = r.b.calls
                     /\ reads' = r.b.reads
                     /\ handles' = Add(handles, r.h)
                     /\ last' = [NoLast EXCEPT !.op = "next", !.index = iter.index,
                                               !.found = TRUE, !.picks = <<r.phys>>,
                                               !.res = r.h]
            /\ iter' = [iter EXCEPT !.index = @ + 1]
       ELSE /\ last' = [NoLast EXCEPT !.op = "next", !.index = iter.index]
            /\ calls' = <<>>
            /\ reads' = {}
            /\ UNCHANGED <<maps, handles, iter>>
    /\ UNCHANGED <<rsdp, fw, bridge, debug_assertions, leaked, root, panicked>>
    /\ UNCHANGED madtVars
    /\ UNCHANGED rhctVars

\* the caller drops the iterator, finished or not
AllTablesDrop ==
    /\ iter.active
    /\ iter' = [active |-> FALSE, index |-> 0]
    /\ calls' = <<>>
    /\ reads' = {}
    /\ last' = [NoLast EXCEPT !.op = "drop_iter"]
    /\ UNCHANGED <<rsdp, fw, bridge, debug_assertions, maps, leaked, root, handles, panicked>>
    /\ UNCHANGED madtVars
    /\ UNCHANGED rhctVars

\* all_tables() walked to its end by a caller that reads the signature and
\* the length of each table and drops the handle before asking for the next
\* element, from element i of n.  [b, seen]
RECURSIVE Collect(_, _, _, _)
Collect(b, i, n, picks) ==
    IF i >= n THEN [b |-> b, seen |-> <<>>]
    ELSE LET r == NextTable(b, i, picks[i + 1])
             b1 == BRead(r.b, "table", r.h.addr, r.h.phys, 0, 4)
             b2 == BRead(b1, "table", r.h.addr, r.h.phys, 4, 4)
             rest == Collect(drop(b2, r.h.addr), i + 1, n, picks)
         IN  [rest EXCEPT !.seen = <<r.phys>> \o @]

\* one whole walk of all_tables(); last.picks is the tables it yielded
AllTablesAll ==
    /\ root.state = "live"
    /\ ~panicked
    /\ ~iter.active
    /\ root.len <= MaxWalk
    /\ \E picks \in [1 .. root.len -> TablePhys] :
         \E c \in {Collect(B0, 0, root.len, picks)} :
             /\ maps' = c.b.maps
             /\ calls' = c.b.calls
             /\ reads' = c.b.reads
             /\ last' = [NoLast EXCEPT !.op = "all", !.picks = c.seen]
    /\ UNCHANGED <<rsdp, fw, bridge, debug_assertions, leaked, root, iter, handles, panicked>>
    /\ UNCHANGED madtVars
    /\ UNCHANGED rhctVars

(***************************************************************************)
(* RootTable::get_table_by_signature and RootTable::get_table              *)
(***************************************************************************)
\* what the caller looks up
LookupSigs == {<<"APIC", 0>>, <<"APIC", 1>>, <<"RHCT", 0>>}
LookupTypes == {<<"Madt", 0>>, <<"Madt", 1>>, <<"Rhct", 0>>}

\* all_tables().filter(|header| header.signature == signature).nth(k), from
\* element i of n: a handle the filter rejects or nth skips is dropped before
\* the next element is produced.  [b, found, h, seen]
RECURSIVE Walk(_, _, _, _, _, _)
Walk(b, i, n, picks, sig, k) ==
    IF i >= n THEN [b |-> b, found |-> FALSE, h |-> NoHandle, seen |-> <<>>]
    ELSE LET r == NextTable(b, i, picks[i + 1])
             b1 == BRead(r.b, "table", r.h.addr, r.h.phys, 0, 4)
             match == TableSig(r.phys) = sig
         IN  IF match /\ k = 0
             THEN [b |-> b1, found |-> TRUE, h |-> r.h, seen |-> <<r.phys>>]
             ELSE LET rest == Walk(drop(b1, r.h.addr), i + 1, n, picks, sig,
                                   IF match THEN k - 1 ELSE k)
                  IN  [rest EXCEPT !.seen = <<r.phys>> \o @]

\* the elements one walk of the model examines
WalkLen == Min(root.len, MaxWalk)

get_table_by_signature(sig, index, picks) == Walk(B0, 0, WalkLen, picks, sig, index)

GetTableBySignature ==
    /\ root.state = "live"
    /\ ~panicked
    /\ \E q \in LookupSigs, picks \in [1 .. WalkLen -> TablePhys] :
         \E sig \in {q[1]}, index \in {q[2]} :
         \E w \in {get_table_by_signature(sig, index, picks)} :
             /\ root.len > MaxWalk => w.found
             /\ w.found => BagCardinality(handles) < MaxHandles
             /\ maps' = w.b.maps
             /\ calls' = w.b.calls
             /\ reads' = w.b.reads
             /\ handles' = IF w.found THEN Add(handles, w.h) ELSE handles
             /\ last' = [op |-> "get_table_by_signature", sig |-> sig, index |-> index,
                         found |-> w.found, panic |-> FALSE, picks |-> w.seen, res |-> w.h]
    /\ UNCHANGED <<rsdp, fw, bridge, debug_assertions, leaked, root, iter, panicked>>
    /\ UNCHANGED madtVars
    /\ UNCHANGED rhctVars

\* get_table::<T>(index): [b, found, panic, h, seen]
get_table(T, index, picks) ==
    LET w == get_table_by_signature(SIGNATURE(T), index, picks)
    IN  IF ~w.found
        THEN [b |-> w.b, found |-> FALSE, panic |-> FALSE, h |-> NoHandle, seen |-> w.seen]
        ELSE LET f == map_full(w.b, w.h, T)
             IN  [b |-> f.b, found |-> ~f.panic, panic |-> f.panic, h |-> f.h, seen |-> w.seen]

GetTable ==
    /\ root.state = "live"
    /\ ~panicked
    /\ \E q \in LookupTypes, picks \in [1 .. WalkLen -> TablePhys] :
         \E T \in {q[1]}, index \in {q[2]} :
         \E g \in {get_table(T, index, picks)} :
             /\ root.len > MaxWalk => (g.found \/ g.panic)
             /\ g.found => BagCardinality(handles) < MaxHandles
             /\ maps' = g.b.maps
             /\ calls' = g.b.calls
             /\ reads' = g.b.reads
             /\ handles' = IF g.found THEN Add(handles, g.h) ELSE handles
             /\ panicked' = g.panic
             /\ last' = [op |-> "get_table", sig |-> SIGNATURE(T), index |-> index,
                         found |-> g.found, panic |-> g.panic, picks |-> g.seen, res |-> g.h]
    /\ UNCHANGED <<rsdp, fw, bridge, debug_assertions, leaked, root, iter>>
    /\ UNCHANGED madtVars
    /\ UNCHANGED rhctVars

(***************************************************************************)
(* Operations on the handles the caller holds                              *)
(***************************************************************************)

\* Mapped<Header>::clone_header(&self)
CloneHeader ==
    /\ ~panicked
    /\ BagCardinality(handles) < MaxHandles
    /\ \E h \in Held :
         /\ h.ty = "Header"
         /\ \E b \in {clone_header(B0, h.addr, h.phys)} :
            \E new \in {Handle(b.ret, "Header", h.phys, 0)} :
                /\ maps' = b.maps
                /\ calls' = b.calls
                /\ reads' = b.reads
                /\ handles' = Add(handles, new)
                /\ last' = [NoLast EXCEPT !.op = "clone_header", !.found = TRUE, !.res = new]
    /\ UNCHANGED <<rsdp, fw, bridge, debug_assertions, leaked, root, iter, panicked>>
    /\ UNCHANGED madtVars
    /\ UNCHANGED rhctVars

\* impl Clone for Mapped<T>, T: Sdt
clone(b, h) ==
    LET b1 == BRead(b, "table", h.addr, h.phys, 4, 4)
    IN  BRemap(b1, h.addr, TableLen(h.phys))

Clone ==
    /\ ~panicked
    /\ BagCardinality(handles) < MaxHandles
    /\ \E h \in Held :
         /\ h.ty \in SdtTypes
         /\ \E b \in {clone(B0, h)} :
            \E new \in {[h EXCEPT !.addr = b.ret]} :
                /\ maps' = b.maps
                /\ calls' = b.calls
                /\ reads' = b.reads
                /\ handles' = Add(handles, new)
                /\ last' = [NoLast EXCEPT !.op = "clone", !.found = TRUE, !.res = new]
    /\ UNCHANGED <<rsdp, fw, bridge, debug_assertions, leaked, root, iter, panicked>>
    /\ UNCHANGED madtVars
    /\ UNCHANGED rhctVars

\* Mapped<Header>::map_full::<T>(self), called by the holder of a header handle
MapFull ==
    /\ ~panicked
    /\ \E h \in Held, T \in {"Madt"} :
         /\ h.ty = "Header"
         /\ \E f \in {map_full(B0, h, T)} :
                /\ maps' = f.b.maps
                /\ calls' = f.b.calls
                /\ reads' = f.b.reads
                /\ handles' = IF f.panic THEN Remove(handles, h)
                              ELSE Add(Remove(handles, h), f.h)
                /\ panicked' = f.panic
                /\ last' = [op |-> "map_full", sig |-> SIGNATURE(T), index |-> 0,
                            found |-> ~f.panic, panic |-> f.panic, picks |-> <<>>,
                            res |-> f.h]
    /\ UNCHANGED <<rsdp, fw, bridge, debug_assertions, leaked, root, iter>>
    /\ UNCHANGED madtVars
    /\ UNCHANGED rhctVars

RECURSIVE SumOver(_, _)
SumOver(f, S) == IF S = {} THEN 0
                 ELSE LET x == CHOOSE y \in S : TRUE IN f[x] + SumOver(f, S \ {x})

\* Mapped::into_inner(self): mem::forget, no unmap
IntoInner ==
    /\ ~panicked
    /\ SumOver(leaked, Addrs) < MaxLeaks
    /\ \E h \in Held :
         /\ handles' = Remove(handles, h)
         /\ leaked' = [leaked EXCEPT ![h.addr] = @ + 1]
         /\ last' = [NoLast EXCEPT !.op = "into_inner", !.res = h]
    /\ calls' = <<>>
    /\ reads' = {}
    /\ UNCHANGED <<rsdp, fw, bridge, debug_assertions, maps, root, iter, panicked>>
    /\ UNCHANGED madtVars
    /\ UNCHANGED rhctVars

\* Drop for Mapped, also run for every held handle by an unwinding
Drop ==
    /\ \E h \in Held :
         \E b \in {drop(B0, h.addr)} :
             /\ maps' = b.maps
             /\ calls' = b.calls
             /\ handles' = Remove(handles, h)
             /\ last' = [NoLast EXCEPT !.op = "drop", !.res = h]
    /\ reads' = {}
    /\ UNCHANGED <<rsdp, fw, bridge, debug_assertions, leaked, root, iter, panicked>>
    /\ UNCHANGED madtVars
    /\ UNCHANGED rhctVars

(***************************************************************************)
(* The locator's specification                                             *)
(***************************************************************************)
Revisions == {1, 2}
RootSigs == {"RSDT", "XSDT"}
EntryLists == {<<1, 2>>}

\* header.length of the root table: below the header, no element, one element
\* and three spare bytes, two elements
RootLens(w) == {20, HeaderSize, HeaderSize + w + 3, HeaderSize + 2 * w}

MadtIdle ==
    /\ ics = <<>>
    /\ offset = 0
    /\ emitted = <<>>
    /\ status = "idle"

NoNode == [op |-> "none", offset |-> 0, found |-> FALSE, panic |-> FALSE,
           off |-> 0, size |-> 0, kind |-> "none", len |-> 0]

\* the iterator of Rhct::nodes: yielded holds [off, size, len] of each HartInfo
\* returned; rejected and kept record the first None of get_node and how many
\* had been returned by then
NoWalk == [state |-> "idle", index |-> 0, offset |-> 0, yielded |-> <<>>,
           rejected |-> FALSE, kept |-> 0]

RhctIdle ==
    /\ nodes = <<>>
    /\ hart = [state |-> "idle", index |-> 0]
    /\ rres = NoNode
    /\ nodes_len = 0
    /\ nodes_offset = 0
    /\ walk = NoWalk

Init ==
    /\ rsdp \in [revision : Revisions, rsdt_addr : {RsdtPhys}, xsdt_addr : {XsdtPhys}]
    /\ \E sig \in RootSigs, ents \in EntryLists :
         LET w == IF rsdp.revision < 2 THEN U32Size ELSE U64Size
             own == IF rsdp.revision < 2 THEN "RSDT" ELSE "XSDT"
         IN  \E len \in RootLens(w) :
                \* one root table with a foreign signature is enough
                /\ sig # own => len = HeaderSize + w + 3
                /\ fw = [rootSig |-> sig, rootLen |-> len, ents |-> ents]
    /\ bridge \in Bridges
    /\ debug_assertions \in BOOLEAN
    /\ maps = [a \in Addrs |-> NoMap]
    /\ leaked = [a \in Addrs |-> 0]
    /\ root = NoRoot
    /\ iter = [active |-> FALSE, index |-> 0]
    /\ handles = EmptyBag
    /\ panicked = FALSE
    /\ last = NoLast
    /\ calls = <<>>
    /\ reads = {}
    /\ MadtIdle
    /\ RhctIdle

Next ==
    \/ New
    \/ DropRoot
    \/ AllTables
    \/ AllTablesNext
    \/ AllTablesDrop
    \/ GetTableBySignature
    \/ GetTable
    \/ Drop

Spec == Init /\ [][Next]_vars

(***************************************************************************)
(* The specification of the handle operations: the caller obtains handles  *)
(* by lookup and clones, widens, gives up and drops them.                  *)
(***************************************************************************)
HandleNext ==
    \/ New
    \/ GetTableBySignature
    \/ CloneHeader
    \/ Clone
    \/ MapFull
    \/ IntoInner
    \/ Drop

SpecHandles == Init /\ [][HandleNext]_vars

(***************************************************************************)
(* The specification of repeated walks: the caller walks all_tables() to   *)
(* its end, any number of times, between lookups.                          *)
(***************************************************************************)
WalkNext ==
    \/ New
    \/ AllTablesAll
    \/ GetTableBySignature
    \/ Drop

SpecWalks == Init /\ [][WalkNext]_vars

(***************************************************************************)
(* Madt::entries.  ics is the trailing byte array of a mapped Madt; one    *)
(* step is one call of the from_fn closure.  A record of emitted is        *)
(* [off, size, kind, len]: the sub-record's start and total_size, the      *)
(* Entry variant, and the slice length of an Unknown's data.               *)
(***************************************************************************)
MaxIcs == 4
MadtBytes == {0, 1, 2, 4, 7}

\* the variant the match on bytes[0] selects
EntryKind(tag) ==
    CASE tag = 0 -> "LocalApic"
      [] tag = 1 -> "IoApic"
      [] tag = 2 -> "InterruptSourceOverride"
      [] tag = 3 -> "NmiSource"
      [] tag = 4 -> "LocalApicNmi"
      [] tag = 5 -> "LocalApicAddressOverride"
      [] tag = 9 -> "LocalX2Apic"
      [] tag = 10 -> "LocalX2ApicNmi"
      [] tag = 11 -> "GicCpuInterface"
      [] tag = 12 -> "GicDistributor"
      [] tag = 13 -> "GicMsiFrame"
      [] tag = 14 -> "GicRedistributor"
      [] tag = 15 -> "GicInterruptTranslationService"
      [] tag = 16 -> "MultiprocessorWakeup"
      [] tag = 24 -> "RiscvIntc"
      [] OTHER -> "Unknown"

\* size_of the packed struct the cast! of a variant views
EntrySize(kind) ==
    CASE kind = "LocalApic" -> 8
      [] kind = "IoApic" -> 12
      [] kind = "InterruptSourceOverride" -> 10
      [] kind = "NmiSource" -> 8
      [] kind = "LocalApicNmi" -> 9
      [] kind = "LocalApicAddressOverride" -> 12
      [] kind = "LocalX2Apic" -> 16
      [] kind = "LocalX2ApicNmi" -> 12
      [] kind = "GicCpuInterface" -> 82
      [] kind = "GicDistributor" -> 24
      [] kind = "GicMsiFrame" -> 24
      [] kind = "GicRedistributor" -> 16
      [] kind = "GicInterruptTranslationService" -> 20
      [] kind = "MultiprocessorWakeup" -> 16
      [] kind = "RiscvIntc" -> 20
      [] OTHER -> SubHeaderSize

\* the byte at 0-based index i of self.ics
IcsByte(i) == ics[i + 1]

IcsRead(off, len) ==
    [what |-> "ics", phys |-> 0, off |-> off, len |-> len, size |-> Len(ics)]

\* Madt::entries(&self): let mut offset = 0
Entries ==
    /\ status = "idle"
    /\ status' = "running"
    /\ offset' = 0
    /\ emitted' = <<>>
    /\ UNCHANGED ics
    /\ UNCHANGED locVars
    /\ UNCHANGED rhctVars

\* one call of the closure
EntriesNext ==
    /\ status = "running"
    /\ IF offset + SubHeaderSize > Len(ics)
       THEN \* self.ics.get(offset..offset + size_of::<Header>())? is None
            /\ status' = "done"
            /\ UNCHANGED <<offset, emitted, reads>>
       ELSE LET type == IcsByte(offset)
                total_size == IcsByte(offset + 1)
                hdr == IcsRead(offset, SubHeaderSize)
            IN  IF offset + total_size > Len(ics)
                THEN \* self.ics.get(offset..offset + total_size)? is None
                     /\ status' = "done"
                     /\ reads' = reads \cup {hdr}
                     /\ UNCHANGED <<offset, emitted>>
                ELSE /\ offset' = offset + total_size
                     /\ IF total_size = 0
                        THEN \* bytes[0] on an empty slice
                             /\ status' = "panic"
                             /\ reads' = reads \cup {hdr}
                             /\ UNCHANGED emitted
                        ELSE IF EntryKind(type) # "Unknown"
                        THEN /\ emitted' = Append(emitted,
                                     [off |-> offset, size |-> total_size,
                                      kind |-> EntryKind(type), len |-> 0])
                             /\ reads' = reads \cup {hdr, IcsRead(offset, 1)}
                             /\ UNCHANGED status
                        ELSE IF debug_assertions /\ total_size < size_of_unsized("Unknown")
                        THEN \* bytes.len() - size_of_unsized::<Unknown>() overflows
                             /\ status' = "panic"
                             /\ reads' = reads \cup {hdr, IcsRead(offset, 1)}
                             /\ UNCHANGED emitted
                        ELSE /\ emitted' = Append(emitted,
                                     [off |-> offset, size |-> total_size,
                                      kind |-> "Unknown",
                                      len |-> (total_size - size_of_unsized("Unknown")) % Usize])
                             /\ reads' = reads \cup {hdr, IcsRead(offset, 1)}
                             /\ UNCHANGED status
    /\ UNCHANGED ics
    /\ UNCHANGED <<rsdp, fw, bridge, debug_assertions, maps, leaked, root, iter,
                   handles, panicked, last, calls>>
    /\ UNCHANGED rhctVars

MadtInit ==
    /\ rsdp = [revision |-> 2, rsdt_addr |-> RsdtPhys, xsdt_addr |-> XsdtPhys]
    /\ fw = [rootSig |-> "XSDT", rootLen |-> HeaderSize, ents |-> <<>>]
    /\ bridge = "direct"
    /\ debug_assertions \in BOOLEAN
    /\ maps = [a \in Addrs |-> NoMap]
    /\ leaked = [a \in Addrs |-> 0]
    /\ root = NoRoot
    /\ iter = [active |-> FALSE, index |-> 0]
    /\ handles = EmptyBag
    /\ panicked = FALSE
    /\ last = NoLast
    /\ calls = <<>>
    /\ reads = {}
    /\ \E n \in 0 .. MaxIcs : ics \in [1 .. n -> MadtBytes]
    /\ offset = 0
    /\ emitted = <<>>
    /\ status = "idle"
    /\ RhctIdle

MadtNext ==
    \/ Entries
    \/ EntriesNext

SpecMadt == MadtInit /\ [][MadtNext]_vars

(***************************************************************************)
(* Rhct: get_node and HartInfo::entries.  nodes is the trailing byte array *)
(* of a mapped Rhct, which starts at table offset size_of_unsized::<Rhct>; *)
(* offsets handed to get_node are relative to the start of the table.      *)
(***************************************************************************)
LE16(v) == <<v % 256, (v \div 256) % 256>>
LE32(v) == LE16(v) \o <<0, 0>>

\* NodeType constants
ISA_STRING == 0
CMO_INFO == 1
MMU_INFO == 2
HART_INFO == 65535

\* the nodes of the firmware's RHCT: an ISA string node of 10 bytes, a node
\* of an unknown type of 8 bytes, a node of an unknown type whose len (4) is
\* below the node header, and a hart info node with the two offsets o1, o2
IsaNode == LE16(ISA_STRING) \o LE16(10) \o LE16(1) \o LE16(2) \o <<114, 0>>
UnknownNode == LE16(7) \o LE16(8) \o LE16(1) \o <<170, 187>>
ShortNode == LE16(9) \o LE16(4)
HartNode(o1, o2) ==
    LE16(HART_INFO) \o LE16(20) \o LE16(1) \o LE16(2) \o LE32(0) \o LE32(o1) \o LE32(o2)
RhctNodes(o1, o2) == IsaNode \o UnknownNode \o ShortNode \o HartNode(o1, o2)

\* where the hart info node starts in nodes
HartRel == Len(IsaNode) + Len(UnknownNode) + Len(ShortNode)

\* header.length of the table
RhctLength == size_of_unsized("Rhct") + Len(nodes)

\* the offsets the hart info node may hold: into the fixed part of the table,
\* the three nodes, and past the end of the table
HartOffsets == {40, 56, 66, 74, 102}

\* the offsets get_node is called with
NodeOffsets == {40, 56, 74, 94, 96, 98, 102}

\* what a read past the end of nodes may give for a 16-bit field
OobValues == {0, 8}

U16At(rel) == nodes[rel + 1] + 256 * nodes[rel + 2]
U32At(rel) == U16At(rel) + 65536 * U16At(rel + 2)

NodeRead(rel, len) ==
    [what |-> "nodes", phys |-> 0, off |-> size_of_unsized("Rhct") + rel, len |-> len,
     size |-> RhctLength]

NoGet == [panic |-> FALSE, found |-> FALSE, rel |-> 0, len |-> 0, reads |-> {}]

\* Rhct::get_node(offset), at_offset being its argument: [panic, found, rel, len, reads]
get_node(at_offset, oob) ==
    IF debug_assertions /\ at_offset < size_of_unsized("Rhct")
    THEN [NoGet EXCEPT !.panic = TRUE]
    ELSE LET rel == (at_offset - size_of_unsized("Rhct")) % Usize
         IN  IF rel > Len(nodes)
             THEN NoGet   \* self.nodes.get(offset..)? is None
             ELSE LET len == IF rel + 4 <= Len(nodes) THEN U16At(rel + 2) ELSE oob
                      rd == {NodeRead(rel + 2, 2)}
                  IN  IF rel + len > Len(nodes)
                      THEN [NoGet EXCEPT !.reads = rd]
                      ELSE [panic |-> FALSE, found |-> TRUE, rel |-> rel, len |-> len,
                            reads |-> rd]

\* rhct::from_header_slice_of::<T, N>: [panic, len]
from_header_slice_of(N, nodeLen, stride) ==
    IF debug_assertions /\ nodeLen < size_of_unsized(N)
    THEN [panic |-> TRUE, len |-> 0]
    ELSE [panic |-> FALSE, len |-> ((nodeLen - size_of_unsized(N)) % Usize) \div stride]

\* the Entry variant HartInfo::entries selects for a node type
NodeKind(type) ==
    CASE type = ISA_STRING -> "IsaString"
      [] type = CMO_INFO -> "CmoInfo"
      [] type = MMU_INFO -> "MmuInfo"
      [] OTHER -> "Unknown"

\* FromHeader::from_header of the variant: [panic, len]
from_header(kind, nodeLen) ==
    CASE kind = "IsaString" -> from_header_slice_of("IsaString", nodeLen, 1)
      [] kind = "Unknown" -> from_header_slice_of("RhctUnknown", nodeLen, 1)
      [] OTHER -> [panic |-> FALSE, len |-> 0]

\* a call of Rhct::get_node by the crate
GetNode ==
    /\ \E at_offset \in NodeOffsets, oob \in OobValues :
         \E g \in {get_node(at_offset, oob)} :
             /\ rres' = [NoNode EXCEPT !.op = "get_node", !.offset = at_offset,
                                       !.found = g.found, !.panic = g.panic,
                                       !.off = size_of_unsized("Rhct") + g.rel,
                                       !.size = g.len]
             /\ reads' = g.reads
    /\ UNCHANGED <<nodes, hart>>
    /\ UNCHANGED walkVars
    /\ UNCHANGED <<rsdp, fw, bridge, debug_assertions, maps, leaked, root, iter,
                   handles, panicked, last, calls>>
    /\ UNCHANGED madtVars

\* offsets.len() of the hart info node
HartOffsetsLen == from_header_slice_of("HartInfo", U16At(HartRel + 2), U32Size)

\* HartInfo::entries(&self, rhct) on the hart info node
HartEntries ==
    /\ hart.state = "idle"
    /\ ~(debug_assertions /\ HartOffsetsLen.panic)
    /\ hart' = [state |-> "running", index |-> 0]
    /\ rres' = [NoNode EXCEPT !.op = "entries"]
    /\ reads' = {}
    /\ UNCHANGED nodes
    /\ UNCHANGED walkVars
    /\ UNCHANGED <<rsdp, fw, bridge, debug_assertions, maps, leaked, root, iter,
                   handles, panicked, last, calls>>
    /\ UNCHANGED madtVars

\* one element of the iterator HartInfo::entries returns
HartEntriesNext ==
    /\ hart.state = "running"
    /\ IF hart.index >= HartOffsetsLen.len
       THEN /\ hart' = [hart EXCEPT !.state = "done"]
            /\ rres' = [NoNode EXCEPT !.op = "entry"]
            /\ reads' = {}
       ELSE \E oob \in OobValues :
            \E at \in {HartRel + size_of_unsized("HartInfo") + hart.index * U32Size} :
            \E at_offset \in {U32At(at) % Usize} :
            \E g \in {get_node(at_offset, oob)} :
            \E type \in {IF g.found /\ g.rel + 2 <= Len(nodes) THEN U16At(g.rel) ELSE oob} :
            \E f \in {from_header(NodeKind(type), g.len)} :
                /\ reads' = {NodeRead(at, U32Size)} \cup g.reads \cup
                             (IF g.found THEN {NodeRead(g.rel, 2)} ELSE {})
                /\ IF g.panic \/ ~g.found \/ f.panic
                   THEN \* get_node overflowed, unwrap() of None, or from_header overflowed
                        /\ hart' = [hart EXCEPT !.state = "panic"]
                        /\ rres' = [NoNode EXCEPT !.op = "entry", !.offset = at_offset,
                                                  !.panic = TRUE,
                                                  !.kind = IF ~g.panic /\ ~g.found
                                                           THEN "unwrap" ELSE "overflow"]
                   ELSE /\ hart' = [hart EXCEPT !.index = @ + 1]
                        /\ rres' = [op |-> "entry", offset |-> at_offset, found |-> TRUE,
                                    panic |-> FALSE,
                                    off |-> size_of_unsized("Rhct") + g.rel,
                                    size |-> g.len, kind |-> NodeKind(type),
                                    len |-> f.len]
    /\ UNCHANGED nodes
    /\ UNCHANGED walkVars
    /\ UNCHANGED <<rsdp, fw, bridge, debug_assertions, maps, leaked, root, iter,
                   handles, panicked, last, calls>>
    /\ UNCHANGED madtVars

RhctInit ==
    /\ rsdp = [revision |-> 2, rsdt_addr |-> RsdtPhys, xsdt_addr |-> XsdtPhys]
    /\ fw = [rootSig |-> "XSDT", rootLen |-> HeaderSize, ents |-> <<>>]
    /\ bridge = "direct"
    /\ debug_assertions \in BOOLEAN
    /\ maps = [a \in Addrs |-> NoMap]
    /\ leaked = [a \in Addrs |-> 0]
    /\ root = NoRoot
    /\ iter = [active |-> FALSE, index |-> 0]
    /\ handles = EmptyBag
    /\ panicked = FALSE
    /\ last = NoLast
    /\ calls = <<>>
    /\ reads = {}
    /\ MadtIdle
    /\ \E o1 \in HartOffsets, o2 \in HartOffsets : nodes = RhctNodes(o1, o2)
    /\ hart = [state |-> "idle", index |-> 0]
    /\ rres = NoNode
    /\ nodes_len = 4
    /\ nodes_offset = size_of_unsized("Rhct")
    /\ walk = NoWalk

RhctNext ==
    \/ GetNode
    \/ HartEntries
    \/ HartEntriesNext

SpecRhct == RhctInit /\ [][RhctNext]_vars

(***************************************************************************)
(* Rhct::nodes.  One step is one call of the closure that filter_map runs  *)
(* for an index of 0..nodes_len: a closure that returns None leaves the    *)
(* index consumed and nothing yielded.                                     *)
(***************************************************************************)
MaxNodes == 4

\* a hart info node whose len field is 0
ZeroHartNode == LE16(HART_INFO) \o LE16(0) \o LE16(1)
\* a hart info node whose len field runs past the end of the table
OverrunHartNode == LE16(HART_INFO) \o LE16(40) \o LE16(1)

\* the node arrays walked: the firmware's RHCT; two hart info nodes around an
\* ISA string node; a hart info node of len 0 before a hart info node; a hart
\* info node before one that overruns the table
WalkImages == {RhctNodes(56, 66),
               HartNode(56, 56) \o IsaNode \o HartNode(56, 66),
               ZeroHartNode \o HartNode(56, 66),
               HartNode(56, 56) \o OverrunHartNode}

\* the values of the nodes_offset field: inside the fixed fields, the first
\* node, ten bytes on
WalkOffsets == {40, 56, 66}

\* what a read past the end of nodes may give for a node type
OobTypes == {ISA_STRING, HART_INFO}

\* Rhct::nodes(&self): let mut offset = self.nodes_offset.get() as usize
Nodes ==
    /\ walk.state = "idle"
    /\ walk' = [NoWalk EXCEPT !.state = "running", !.offset = nodes_offset]
    /\ rres' = [NoNode EXCEPT !.op = "nodes"]
    /\ reads' = {}
    /\ UNCHANGED <<nodes, hart, nodes_len, nodes_offset>>
    /\ UNCHANGED <<rsdp, fw, bridge, debug_assertions, maps, leaked, root, iter,
                   handles, panicked, last, calls>>
    /\ UNCHANGED madtVars

\* one call of the closure, or the end of the range
NodesNext ==
    /\ walk.state = "running"
    /\ IF walk.index >= nodes_len
       THEN /\ walk' = [walk EXCEPT !.state = "done"]
            /\ rres' = [NoNode EXCEPT !.op = "node"]
            /\ reads' = {}
       ELSE \E oob \in OobValues, oobType \in OobTypes :
            \E g \in {get_node(walk.offset, oob)} :
            \E type \in {IF g.found /\ g.rel + 2 <= Len(nodes) THEN U16At(g.rel) ELSE oobType} :
            \E f \in {from_header_slice_of("HartInfo", g.len, U32Size)} :
                /\ reads' = g.reads \cup (IF g.found THEN {NodeRead(g.rel, 2)} ELSE {})
                /\ IF g.panic
                   THEN \* offset - size_of_unsized::<Self>() overflowed
                        /\ walk' = [walk EXCEPT !.state = "panic"]
                        /\ rres' = [NoNode EXCEPT !.op = "node", !.offset = walk.offset,
                                                  !.panic = TRUE]
                   ELSE IF ~g.found
                   THEN \* self.get_node(offset)? returns None from the closure
                        /\ walk' = [walk EXCEPT !.index = @ + 1,
                                                !.rejected = TRUE,
                                                !.kept = IF walk.rejected THEN @
                                                         ELSE Len(walk.yielded)]
                        /\ rres' = [NoNode EXCEPT !.op = "node", !.offset = walk.offset]
                   ELSE IF type # HART_INFO
                   THEN /\ walk' = [walk EXCEPT !.index = @ + 1, !.offset = @ + g.len]
                        /\ rres' = [NoNode EXCEPT !.op = "node", !.offset = walk.offset,
                                                  !.off = walk.offset, !.size = g.len]
                   ELSE IF f.panic
                   THEN \* HartInfo::from_header: len() - size_of_unsized overflowed
                        /\ walk' = [walk EXCEPT !.state = "panic", !.offset = @ + g.len]
                        /\ rres' = [NoNode EXCEPT !.op = "node", !.offset = walk.offset,
                                                  !.panic = TRUE]
                   ELSE /\ walk' = [walk EXCEPT !.index = @ + 1, !.offset = @ + g.len,
                                                !.yielded = Append(@,
                                                    [off |-> walk.offset, size |-> g.len,
                                                     len |-> f.len])]
                        /\ rres' = [op |-> "node", offset |-> walk.offset, found |-> TRUE,
                                    panic |-> FALSE, off |-> walk.offset, size |-> g.len,
                                    kind |-> "HartInfo", len |-> f.len]
    /\ UNCHANGED <<nodes, hart, nodes_len, nodes_offset>>
    /\ UNCHANGED <<rsdp, fw, bridge, debug_assertions, maps, leaked, root, iter,
                   handles, panicked, last, calls>>
    /\ UNCHANGED madtVars

NodesInit ==
    /\ rsdp = [revision |-> 2, rsdt_addr |-> RsdtPhys, xsdt_addr |-> XsdtPhys]
    /\ fw = [rootSig |-> "XSDT", rootLen |-> HeaderSize, ents |-> <<>>]
    /\ bridge = "direct"
    /\ debug_assertions \in BOOLEAN
    /\ maps = [a \in Addrs |-> NoMap]
    /\ leaked = [a \in Addrs |-> 0]
    /\ root = NoRoot
    /\ iter = [active |-> FALSE, index |-> 0]
    /\ handles = EmptyBag
    /\ panicked = FALSE
    /\ last = NoLast
    /\ calls = <<>>
    /\ reads = {}
    /\ MadtIdle
    /\ nodes \in WalkImages
    /\ hart = [state |-> "idle", index |-> 0]
    /\ rres = NoNode
    /\ nodes_len \in 0 .. MaxNodes
    /\ nodes_offset \in WalkOffsets
    /\ walk = NoWalk

NodesStep ==
    \/ Nodes
    \/ NodesNext

SpecNodes == NodesInit /\ [][NodesStep]_vars

(***************************************************************************)
(* iter_madt of src/src/madt.rs.  ics is the bytes of the table from       *)
(* size_of::<Madt>() up to header.length, and offset is ptr relative to    *)
(* the first of them; end is Len(ics).  One step is one call of the        *)
(* from_fn closure.  A byte at or past end is not part of the table: what  *)
(* a read of it gives is a nondeterministic choice.                        *)
(***************************************************************************)
MaxEmit == 3
LegacyBytes == {0, 1, 2, 3, 24}

\* what a read past the end of the table may give for a byte
OobBytes == {0, 1}

\* the Entry variant the match on header.kind selects
LegacyKind(kind) ==
    CASE kind = 0 -> "LocalApic"
      [] kind = 24 -> "RiscvIntc"
      [] OTHER -> "Unknown"

\* the reads of the arm of a variant, relative to the record's start: <<at, len>>
LegacyFields(variant) ==
    CASE variant = "LocalApic" -> {<<2, 1>>, <<3, 1>>, <<4, 4>>}
      [] variant = "RiscvIntc" -> {<<2, 1>>, <<4, 4>>, <<8, 8>>, <<16, 4>>}
      [] OTHER -> {}

\* iter_madt(madt): ptr = madt + size_of::<Madt>(), end = madt + header.length
IterMadt ==
    /\ status = "idle"
    /\ status' = "running"
    /\ offset' = 0
    /\ emitted' = <<>>
    /\ UNCHANGED ics
    /\ UNCHANGED locVars
    /\ UNCHANGED rhctVars

\* one call of the closure
IterMadtNext ==
    /\ status = "running"
    /\ IF offset >= Len(ics)
       THEN \* ptr >= end
            /\ status' = "done"
            /\ UNCHANGED <<offset, emitted, reads>>
       ELSE /\ Len(emitted) < MaxEmit
            /\ \E oobLen \in OobBytes, oobVersion \in OobBytes :
               \E kind \in {IcsByte(offset)} :
               \E len \in {IF offset + 1 < Len(ics) THEN IcsByte(offset + 1) ELSE oobLen} :
               \E version \in {IF offset + 2 < Len(ics) THEN IcsByte(offset + 2)
                                ELSE oobVersion} :
                   IF LegacyKind(kind) = "RiscvIntc" /\ version # 1
                   THEN \* assert!(version == 1)
                        /\ status' = "panic"
                        /\ reads' = reads \cup {IcsRead(offset, SubHeaderSize),
                                                 IcsRead(offset + 2, 1)}
                        /\ UNCHANGED <<offset, emitted>>
                   ELSE /\ emitted' = Append(emitted,
                                [off |-> offset, size |-> len, kind |-> LegacyKind(kind),
                                 len |-> IF LegacyKind(kind) = "Unknown" THEN len ELSE 0])
                        /\ reads' = reads \cup {IcsRead(offset, SubHeaderSize)} \cup
                                     {IcsRead(offset + f[1], f[2]) :
                                          f \in LegacyFields(LegacyKind(kind))}
                        /\ offset' = offset + len
                        /\ UNCHANGED status
    /\ UNCHANGED ics
    /\ UNCHANGED <<rsdp, fw, bridge, debug_assertions, maps, leaked, root, iter,
                   handles, panicked, last, calls>>
    /\ UNCHANGED rhctVars

LegacyInit ==
    /\ rsdp = [revision |-> 2, rsdt_addr |-> RsdtPhys, xsdt_addr |-> XsdtPhys]
    /\ fw = [rootSig |-> "XSDT", rootLen |-> HeaderSize, ents |-> <<>>]
    /\ bridge = "direct"
    /\ debug_assertions \in BOOLEAN
    /\ maps = [a \in Addrs |-> NoMap]
    /\ leaked = [a \in Addrs |-> 0]
    /\ root = NoRoot
    /\ iter = [active |-> FALSE, index |-> 0]
    /\ handles = EmptyBag
    /\ panicked = FALSE
    /\ last = NoLast
    /\ calls = <<>>
    /\ reads = {}
    /\ \E n \in 0 .. MaxIcs : ics \in [1 .. n -> LegacyBytes]
    /\ offset = 0
    /\ emitted = <<>>
    /\ status = "idle"
    /\ RhctIdle

LegacyNext ==
    \/ IterMadt
    \/ IterMadtNext

SpecLegacy == LegacyInit /\ [][LegacyNext]_vars

(***************************************************************************)
(* Properties                                                              *)
(***************************************************************************)

\* C1: once every handle that was returned has been dropped, every address a
\* Bridge map or remap call returned has been passed to unmap exactly once;
\* the only mappings still outstanding are those of handles given up through
\* into_inner.
C1_EveryMappingUnmappedOnce ==
    (handles = EmptyBag /\ ~iter.active) =>
        \A a \in Addrs : maps[a].refs = leaked[a]

C3_RootMappedUntilDropped ==
    /\ root.state = "live" =>
          /\ maps[root.ptr].refs > 0
          /\ maps[root.ptr].phys = root.phys
          /\ ~maps[root.ptr].stale
    /\ last.op = "drop_root" =>
          \E i \in 1 .. Len(calls) : calls[i].op = "unmap" /\ calls[i].arg = root.ptr

\* C4: every read of len bytes at offset off of a table happens under a live
\* mapping of that table of at least off + len bytes, the reads of the root
\* pointer array included.
C4_ReadsCovered ==
    \A r \in reads : r.size >= r.off + r.len

\* C5: the root variant follows from the RSDP revision alone: below 2 the
\* table at rsdt_addr with 4-byte entries, from 2 on the table at xsdt_addr
\* with 8-byte entries; acpi_revision is the RSDP's revision; and every later
\* read of the root array uses the width of that variant.
C5_Width == IF rsdp.revision < 2 THEN U32Size ELSE U64Size
C5_Addr == IF rsdp.revision < 2 THEN rsdp.rsdt_addr ELSE rsdp.xsdt_addr
C5_VariantByRevision ==
    /\ root.state \in {"live", "dropped"} =>
          /\ root.acpi_revision = rsdp.revision
          /\ root.kind = (IF rsdp.revision < 2 THEN "Rsdt" ELSE "Xsdt")
          /\ root.phys = C5_Addr
          /\ root.len = ((fw.rootLen - HeaderSize) % Usize) \div C5_Width
    /\ last.op = "new" =>
          /\ calls[1].op = "map"
          /\ calls[1].arg = C5_Addr
    /\ \A r \in reads :
          r.what = "root" =>
              /\ r.phys = C5_Addr
              /\ r.off >= HeaderSize =>
                    /\ r.len = C5_Width
                    /\ (r.off - HeaderSize) % C5_Width = 0

\* an extended root table is in use and a lookup has read its second entry
C5_Witness ==
    /\ rsdp.revision >= 2
    /\ root.state = "live"
    /\ root.kind = "Xsdt"
    /\ last.op = "get_table_by_signature"
    /\ last.found
    /\ \E r \in reads : r.what = "root" /\ r.off = HeaderSize + U64Size /\ r.len = U64Size

\* the tables the first n entries of the firmware's root array name
FirmwareEntries(n) == [i \in 1 .. n |-> RootEntry(i - 1)]

\* those of a sequence of tables whose signature is sig, in order
Matching(tables, sig) ==
    LET Test(p) == TableSig(p) = sig
    IN  SelectSeq(tables, Test)

\* C6: for a root table of header length L >= 36 the walk visits exactly
\* (L - 36) / 4 (legacy) or (L - 36) / 8 (extended) entries, and the i-th
\* handle it produces is the mapping of the address the i-th entry stores.
C6_VisitsArrayInOrder ==
    /\ (root.state = "live" /\ fw.rootLen >= HeaderSize) =>
          root.len = (fw.rootLen - HeaderSize) \div Width(root.kind)
    /\ (last.op = "next" /\ ~last.found) => last.index = root.len
    /\ (last.op = "next" /\ last.found) =>
          /\ last.index < root.len
          /\ last.res.phys = RootEntry(last.index)

\* C7: get_table_by_signature(signature, index) returns the index-th entry of
\* the root array, in array order, whose signature equals the requested one,
\* and nothing exactly when fewer than index + 1 entries match.
C7_IndexthMatch ==
    (last.op = "get_table_by_signature" /\ root.len <= MaxWalk) =>
        LET m == Matching(FirmwareEntries(root.len), last.sig)
        IN  /\ last.found = (Len(m) >= last.index + 1)
            /\ last.found => last.res.phys = m[last.index + 1]

\* C8: wherever a table has been sized as a type, its signature was read and
\* found equal to the type's SIGNATURE first: the root table sized by
\* map_table, and a table sized by map_full.
C8_SignatureComparedBeforeSizing ==
    /\ root.state = "live" =>
          fw.rootSig = SIGNATURE(IF root.kind = "Rsdt" THEN "RootSdt32" ELSE "RootSdt64")
    /\ (last.op = "new" /\ ~last.panic) =>
          \E r \in reads : r.what = "root" /\ r.off = 0 /\ r.len = 4
    /\ (last.op \in {"get_table", "map_full"} /\ last.found) =>
          /\ TableSig(last.res.phys) = SIGNATURE(last.res.ty)
          /\ \E r \in reads : r.what = "table" /\ r.phys = last.res.phys /\ r.off = 0

\* C9: get_table::<T>(index) returns nothing exactly when the lookup of
\* T::SIGNATURE at index among the entries it examined finds nothing;
\* otherwise it returns a handle of type T onto the matching table, remapped
\* to header.length bytes and sized by T's rule, and it does not abort.
C9_GetTableTyped ==
    last.op = "get_table" =>
        LET m == Matching(last.picks, last.sig)
        IN  /\ ~last.panic
            /\ last.found = (Len(m) >= last.index + 1)
            /\ last.found =>
                  /\ SIGNATURE(last.res.ty) = last.sig
                  /\ last.res.phys = m[last.index + 1]
                  /\ \E i \in 1 .. Len(calls) :
                        /\ calls[i].op = "remap"
                        /\ calls[i].size = TableLen(last.res.phys)
                        /\ calls[i].ret = last.res.addr

\* the sub-record starting at off lies inside the region
Fits(off) ==
    /\ off + SubHeaderSize <= Len(ics)
    /\ off + IcsByte(off + 1) <= Len(ics)

\* where the sub-record after the emitted ones starts
NextStart == IF emitted = <<>> THEN 0
             ELSE emitted[Len(emitted)].off + emitted[Len(emitted)].size

\* C10: Madt::entries emits, in storage order, exactly the sub-records that
\* lie fully inside the region, each starting where the one before ended; it
\* reads no sub-record header at or past the end; and it ends, emitting
\* nothing more, only at a sub-record that does not fit.
C10_EmitsContainedRecords ==
    /\ \A i \in 1 .. Len(emitted) :
          /\ emitted[i].off = (IF i = 1 THEN 0 ELSE emitted[i - 1].off + emitted[i - 1].size)
          /\ emitted[i].size = IcsByte(emitted[i].off + 1)
          /\ emitted[i].off + emitted[i].size <= Len(ics)
    /\ \A r \in reads : r.what = "ics" => r.off + r.len <= Len(ics)
    /\ status \in {"done", "panic"} => ~Fits(NextStart)

\* C11: get_node with an offset at which a node header does not fit inside
\* the table (the table's total length, or closer to it than the 6 bytes of a
\* node header) returns nothing, and reads no byte at or beyond the table's
\* total length.
C11_GetNodeRejectsOutOfRange ==
    (rres.op = "get_node" /\ rres.offset >= size_of_unsized("Rhct")) =>
        /\ rres.offset + NodeHeaderSize > RhctLength => (~rres.found /\ ~rres.panic)
        /\ \A r \in reads : r.what = "nodes" => r.off + r.len <= RhctLength

\* C12: a declared length below the fixed prefix of its type yields no
\* elements: the element count of a root table or of a typed table is never
\* a wrapped difference, and no root-array element beyond the declared
\* length is read.
C12_ShortLengthYieldsNoElements ==
    /\ (root.state = "live" /\ fw.rootLen < HeaderSize) => root.len = 0
    /\ (last.op = "get_table" /\ last.found
           /\ TableLen(last.res.phys) < size_of_unsized(last.res.ty)) => last.res.len = 0
    /\ \A r \in reads :
          (r.what = "root" /\ r.off >= HeaderSize) => r.off + r.len <= fw.rootLen

\* C13: when a hart info node holds an offset that get_node rejects,
\* HartInfo::entries yields no entry for it, or ends; it does not abort on the
\* absent node.
C13_AbsentNodeIsNotAbort ==
    ~(rres.op = "entry" /\ rres.panic /\ rres.kind = "unwrap")

\* C14: a sub-record with an unknown type tag is emitted as an Unknown whose
\* span is its declared length (the header and declared length minus header
\* size bytes of data); it is not skipped and not emitted as a known shape.
C14_UnknownSpansDeclaredLength ==
    /\ \A i \in 1 .. Len(emitted) :
          /\ (emitted[i].kind = "Unknown") = (EntryKind(IcsByte(emitted[i].off)) = "Unknown")
          /\ emitted[i].kind = "Unknown" =>
                SubHeaderSize + emitted[i].len = emitted[i].size
    /\ (status \in {"done", "panic"} /\ Fits(NextStart)) =>
          EntryKind(IcsByte(NextStart)) # "Unknown"
\* C15: two walks of all_tables() over the same root table yield the same
\* sequence of (signature, length) pairs: a walk that follows a walk yields
\* what the earlier one did.
SigLen(tables) == [i \in 1 .. Len(tables) |-> <<TableSig(tables[i]), TableLen(tables[i])>>]

C15_WalksAgree ==
    [][(last.op = "all" /\ last'.op = "all") => SigLen(last'.picks) = SigLen(last.picks)]_vars

(***************************************************************************)
(* C16: for every table reached through all_tables, get_table_by_signature *)
(* or get_table, the first Bridge call for the table is map(phys, 36);     *)
(* every remap for the table asks for exactly the length its header holds, *)
(* which has been read through the handle; no map asks for more than the   *)
(* 36 header bytes.                                                        *)
(***************************************************************************)
\* the table the i-th Bridge call of an operation is about: the argument of a
\* map, and for a remap or unmap the table of the call that returned its
\* address
RECURSIVE CallPhys(_, _)
CallPhys(cs, i) ==
    IF cs[i].op = "map" THEN cs[i].arg
    ELSE LET before == {j \in 1 .. i - 1 : cs[j].op # "unmap" /\ cs[j].ret = cs[i].arg}
         IN  IF before = {} THEN 0
             ELSE CallPhys(cs, CHOOSE j \in before : \A k \in before : k <= j)

C16_HeaderMappedFirst ==
    last.op \in {"next", "all", "get_table_by_signature", "get_table"} =>
        \A i \in 1 .. Len(calls) :
            /\ calls[i].op = "map" => calls[i].size = HeaderSize
            /\ calls[i].op # "map" =>
                  \E j \in 1 .. i - 1 :
                      /\ calls[j].op = "map"
                      /\ calls[j].arg = CallPhys(calls, i)
                      /\ calls[j].size = HeaderSize
            /\ calls[i].op = "remap" =>
                  /\ calls[i].size = TableLen(CallPhys(calls, i))
                  /\ \E r \in reads : /\ r.what = "table"
                                       /\ r.phys = CallPhys(calls, i)
                                       /\ r.off = 4
                                       /\ r.len = 4
                                       /\ r.size >= HeaderSize

\* a typed lookup that passed over a table and widened the one it returned
C16_Witness ==
    /\ last.op = "get_table"
    /\ last.found
    /\ Len(last.picks) = 2
    /\ Cardinality({i \in 1 .. Len(calls) : calls[i].op = "remap"}) = 3

(***************************************************************************)
(* C17: the header seen through the header-only mapping of a table is the  *)
(* header seen through the handle obtained by widening it (clone_header or *)
(* map_full): the widened handle is mapped, and mapped to the table whose  *)
(* header was mapped first, whether the Bridge's remap keeps the address   *)
(* or returns another.                                                     *)
(***************************************************************************)
\* the Bridge calls of the last operation that returned address a
Widenings(a) == {i \in 1 .. Len(calls) : calls[i].op = "remap" /\ calls[i].ret = a}

LiveOfCall(a) ==
    Cardinality({i \in 1 .. Len(calls) : calls[i].op # "unmap" /\ calls[i].ret = a})
    - Cardinality({i \in 1 .. Len(calls) : calls[i].op = "unmap" /\ calls[i].arg = a})

C18_OnlyResultStaysMapped ==
    (last.op \in {"get_table_by_signature", "get_table"} /\ ~last.panic) =>
        \A a \in Addrs :
            LiveOfCall(a) = IF last.found /\ a = last.res.addr THEN 1 ELSE 0

\* a lookup that returned the second table after passing over the first
C18_Witness ==
    /\ last.op = "get_table"
    /\ last.found
    /\ Len(last.picks) = 2
    /\ TableSig(last.picks[1]) # last.sig
    /\ LiveOfCall(last.res.addr) = 1

\* C19: Madt::entries never aborts and ends after finitely many steps: every
\* emitted record advances the offset by at least 1, so no more records are
\* emitted than the region has bytes, and the data length of an Unknown is
\* never an underflowed value.
C19_EntriesEndsWithoutAbort ==
    /\ status # "panic"
    /\ Len(emitted) <= Len(ics)
    /\ \A i \in 1 .. Len(emitted) :
          /\ emitted[i].size >= 1
          /\ emitted[i].kind = "Unknown" => emitted[i].len < emitted[i].size

\* C20: every typed entry Madt::entries emits lies inside its own sub-record:
\* the size of the shape the tag selects is at most the declared total_size,
\* so the view ends at or before offset + total_size and inside the region.
C20_TypedEntryInsideRecord ==
    \A i \in 1 .. Len(emitted) :
        emitted[i].kind # "Unknown" =>
            /\ EntrySize(emitted[i].kind) <= emitted[i].size
            /\ emitted[i].off + EntrySize(emitted[i].kind) <= Len(ics)

\* C22: get_node with an offset below the fixed prefix of the table (one that
\* points into the table header or the fixed fields) returns nothing: the
\* rebasing subtraction neither aborts nor yields a node.
C22_RebaseBelowPrefixIsNone ==
    (rres.op = "get_node" /\ rres.offset < size_of_unsized("Rhct")) =>
        (~rres.panic /\ ~rres.found)

(***************************************************************************)
(* C21: Rhct::nodes examines at most nodes_len nodes, packed back to back  *)
(* from table offset nodes_offset, each advancing by its own len, and      *)
(* yields exactly the HART_INFO nodes among them, in storage order and     *)
(* each at most once; after a node that get_node rejects nothing more is   *)
(* yielded.                                                                *)
(***************************************************************************)
\* the node at table offset off lies inside the table
NodeFits(off) ==
    /\ off >= size_of_unsized("Rhct")
    /\ off + NodeHeaderSize <= RhctLength
    /\ off + U16At(off - size_of_unsized("Rhct") + 2) <= RhctLength

\* the offsets of the HART_INFO nodes among the first k nodes packed from off
RECURSIVE HartStarts(_, _)
HartStarts(k, off) ==
    IF k = 0 \/ ~NodeFits(off) THEN <<>>
    ELSE LET rel == off - size_of_unsized("Rhct")
         IN  (IF U16At(rel) = HART_INFO THEN <<off>> ELSE <<>>)
             \o (IF U16At(rel + 2) = 0 THEN <<>> ELSE HartStarts(k - 1, off + U16At(rel + 2)))

C21_NodesYieldsHartInfoInOrder ==
    /\ Len(walk.yielded) <= walk.index
    /\ walk.index <= nodes_len
    /\ \A i \in 1 .. Len(walk.yielded) :
          /\ NodeFits(walk.yielded[i].off)
          /\ U16At(walk.yielded[i].off - size_of_unsized("Rhct")) = HART_INFO
          /\ i > 1 => walk.yielded[i - 1].off < walk.yielded[i].off
    /\ walk.rejected => Len(walk.yielded) = walk.kept
    /\ walk.state = "done" =>
          [i \in 1 .. Len(walk.yielded) |-> walk.yielded[i].off]
              = HartStarts(nodes_len, nodes_offset)

\* C23: iter_madt emits only records that lie fully inside the table, reads
\* no byte at or past header.length, and never emits the same record again: a
\* record whose len would carry the cursor past header.length, or whose len
\* is 0, ends the walk instead.
C23_LegacyStaysInsideTable ==
    /\ \A i \in 1 .. Len(emitted) :
          /\ emitted[i].off + emitted[i].size <= Len(ics)
          /\ i > 1 => emitted[i - 1].off < emitted[i].off
    /\ \A r \in reads : r.what = "ics" => r.off + r.len <= Len(ics)

====
